---- MODULE Spec2Model ----
(***************************************************************************)
(* Model of the batch ingestion pipeline (preprocess_data.py), of the      *)
(* collection migration utility (migrate_to_cloud.py) and of the query     *)
(* page (app.py).                                                          *)
(*                                                                         *)
(* One run of one of the two programs is a behaviour: `prog` says which    *)
(* main() runs and `pc` is its position.  The vector index service and the *)
(* embedding service are the environment: each call either returns or      *)
(* raises, chosen nondeterministically; an upsert that raises stores       *)
(* nothing and an upsert that returns stores every point it was given.     *)
(* A point is modelled by its id and its payload; the payload of the k-th  *)
(* input record is the number k (zero-based), and the vector an embedding  *)
(* call returns for a text is identified with that text.                   *)
(***************************************************************************)
EXTENDS Integers, Sequences, FiniteSets, TLC

VARIABLES
    prog,              \* "ingest" (preprocess_data.main) or "migrate" (migrate_to_cloud.main)
    pc,                \* position of main()
    run,               \* 1 for the first invocation of the program, 2 for a re-run
    envOk,             \* the required environment variables are set
    csv,               \* the source dataset file of the ingestion
    local,             \* the source collection of the migration: its points, in scroll order
    cloud,             \* the destination collection: [exists, points (id -> payload)]
    processed_data,    \* process_csv's result: the items, in row order
    i,                 \* populate_collection: offset of the current batch
    embeddings,        \* populate_collection: vectors returned for the current batch
    pbar,              \* progress bar count (pbar.update)
    points,            \* migrate_data: the points read from the source
    offset,            \* migrate_data: offset of the current batch
    attempt,           \* migrate_batch: the attempt number, from 0
    successful_points, \* migrate_data: points of the batches that succeeded
    verdict,           \* verify_migration: "none", "Verified", "Mismatched", "Error"
    log,               \* service calls, sleeps and migrate_batch returns, in order
    reports,           \* what the run printed: a set of <<kind, number>>
    prev,              \* what the first invocation left, once a re-run started
    seq,               \* the batcher alone: the sequence to split
    size,              \* the batcher alone: the batch size
    pos,               \* the batcher alone: offset of the next chunk
    chunks,            \* the batcher alone: the chunks taken so far
    numeral,           \* convert_numeric alone: the numeral whose text it is given
    converted,         \* convert_numeric alone: what it returned, once called
    source_count,      \* the scroll alone: the point count of the source collection
    points_read,       \* the scroll alone: len(points), -1 before the scroll
    query,             \* the query page: the text of the input widget
    results,           \* the query page: what search_similar_transactions returned
    stop_caught        \* the query page: "except Exception" catches what st.stop() raises

vars == <<prog, pc, run, envOk, csv, local, cloud, processed_data, i, embeddings,
          pbar, points, offset, attempt, successful_points, verdict, log, reports,
          prev, seq, size, pos, chunks, numeral, converted,
          source_count, points_read, query, results, stop_caught>>

batcher == <<seq, size, pos, chunks>>

converter == <<numeral, converted>>

scroller == <<source_count, points_read>>

querier == <<query, results, stop_caught>>

(***************************************************************************)
(* Bounds of the model.                                                    *)
(***************************************************************************)
MaxRows == 23

MaxPoints == 101

MaxRerunRows == 11

MaxSeqLen == 4

MaxBatchSize == 3

(***************************************************************************)
(* Program constants.                                                      *)
(***************************************************************************)
INGEST_BATCH_SIZE == 10

BATCH_SIZE == 50

MAX_RETRIES == 3

SCROLL_LIMIT == 100000

SEARCH_LIMIT == 10

Min(a, b) == IF a < b THEN a ELSE b

(***************************************************************************)
(* Python's s[lo:hi] for 0 <= lo <= hi on a sequence: the elements at the  *)
(* zero-based positions lo .. hi-1 that exist.                             *)
(***************************************************************************)
SliceShort(s, lo, hi) == SubSeq(s, lo + 1, Min(hi, Len(s)) - 1)

Slice(s, lo, hi) == SubSeq(s, lo + 1, Min(hi, Len(s)))

(***************************************************************************)
(* Text is a sequence of one-character strings.  A cell of the dataset is  *)
(* what pandas hands to convert_numeric: a string ("str"), a missing value *)
(* ("nan"), or a number pandas already parsed ("num", when no value of the *)
(* column needed quoting or a comma).                                      *)
(***************************************************************************)
Digits == {"0", "1", "2", "3", "4", "5", "6", "7", "8", "9"}

\* str.rsplit(',', 1): the position of the last comma, 0 when there is none.
LastComma(s) ==
    IF \E k \in 1..Len(s) : s[k] = ","
    THEN CHOOSE k \in 1..Len(s) : s[k] = "," /\ \A j \in (k+1)..Len(s) : s[j] # ","
    ELSE 0

\* str.replace('.', '') forgotten.
RemoveDotsKeeping(s) == s

\* str.replace('.', '')
RemoveDots(s) == SelectSeq(s, LAMBDA c : c # ".")

\* float(text) accepts the text: an optional sign, then digits with at most one
\* point among them and at least one digit (the alphabet of the model has no
\* exponent, blank or underscore).
IsFloatLiteral(s) ==
    LET body == IF Len(s) > 0 /\ s[1] \in {"-", "+"} THEN Tail(s) ELSE s
    IN  /\ \A k \in 1..Len(body) : body[k] \in Digits \cup {"."}
        /\ Cardinality({k \in 1..Len(body) : body[k] = "."}) <= 1
        /\ \E k \in 1..Len(body) : body[k] \in Digits

\* float(): [ok, text]; a text float() rejects raises ValueError.
ToFloat(s) == [ok |-> IsFloatLiteral(s), nan |-> FALSE, text |-> s]

\* convert_numeric: the float it returns, or ok = FALSE when it raises.
convert_numeric(value) ==
    IF value.type = "nan"
    THEN [ok |-> TRUE, nan |-> TRUE, text |-> <<>>]
    ELSE LET str == value.chars
             c   == LastComma(str)
         IN  IF c > 0
             THEN ToFloat(RemoveDots(SubSeq(str, 1, c - 1)) \o <<".">>
                          \o SubSeq(str, c + 1, Len(str)))
             ELSE IF value.type = "str"
                  THEN ToFloat(RemoveDots(str))
                  \* value.replace on a number: AttributeError
                  ELSE [ok |-> FALSE, nan |-> FALSE, text |-> str]

(***************************************************************************)
(* The source dataset: n rows of raw text; every numeric field reads       *)
(* GoodText except the Importe or the Volumen field of row oddAt (1-based; *)
(* 0: no such row), which reads odd.                                       *)
(***************************************************************************)
GoodText == <<"1", ".", "2", "3", "4", ",", "5", "6">>

OddTexts ==
    { <<"5", "6">>,
      <<"1", ",">>,
      <<"a", "b", "c">>,
      <<"1", ",", "2", ",", "3">>,
      <<>> }

Columns == {"Importe", "Volumen"}

NoCsv == [present |-> FALSE, n |-> 0, oddAt |-> 0, oddCol |-> "Importe", odd |-> GoodText]

CsvFiles ==
    { NoCsv }
    \cup
    { [present |-> TRUE, n |-> n, oddAt |-> 0, oddCol |-> "Importe", odd |-> GoodText] :
        n \in 0..MaxRows }
    \cup
    UNION { { [present |-> TRUE, n |-> n, oddAt |-> k, oddCol |-> col, odd |-> text] :
                k \in {1, n}, col \in Columns, text \in OddTexts } :
            n \in {1, INGEST_BATCH_SIZE + 1, MaxRows} }

Raw(file, k, col) == IF k = file.oddAt /\ col = file.oddCol THEN file.odd ELSE GoodText

\* pd.read_csv: a column all of whose fields are numerals (or empty) is read as
\* numbers, any other column as strings; an empty field is read as missing.
Cell(file, k, col) ==
    LET raw     == Raw(file, k, col)
        numeric == \A j \in 1..file.n :
                       Raw(file, j, col) = <<>> \/ IsFloatLiteral(Raw(file, j, col))
    IN  IF raw = <<>> THEN [type |-> "nan", chars |-> <<>>]
        ELSE IF numeric THEN [type |-> "num", chars |-> raw]
        ELSE [type |-> "str", chars |-> raw]

\* The rows of the file one of whose numeric cells convert_numeric rejects.
BadRows(file) ==
    {k \in 1..file.n : \E col \in Columns : ~convert_numeric(Cell(file, k, col)).ok}

\* process_csv with rejected rows skipped instead of raising.
process_csv_skipping(file) ==
    IF ~file.present
    THEN [ok |-> FALSE, data |-> <<>>]
    ELSE [ok |-> TRUE,
          data |-> SelectSeq([k \in 1..file.n |-> k - 1],
                             LAMBDA r : (r + 1) \notin BadRows(file))]

\* process_csv: [ok, data]; ok = FALSE when it prints the error and exits.
\* Item k of data is the record of row k, named by its zero-based position.
process_csv(file) ==
    IF ~file.present \/ BadRows(file) # {}
    THEN [ok |-> FALSE, data |-> <<>>]
    ELSE [ok |-> TRUE, data |-> [k \in 1..file.n |-> k - 1]]

(***************************************************************************)
(* The vector index service.                                               *)
(***************************************************************************)
NoPoints == [id \in {} |-> [payload |-> 0, vector |-> 0]]

\* Points left in the destination by an earlier, unrelated load.
StalePoints == [id \in {0, 500} |-> [payload |-> -1, vector |-> -1]]

\* upsert: insert or overwrite, keyed by id.
Upsert(stored, new) ==
    [id \in DOMAIN stored \cup DOMAIN new |->
        IF id \in DOMAIN new THEN new[id] ELSE stored[id]]

\* points_count of get_collection
PointsCount(coll) == Cardinality(DOMAIN coll.points)

Outcomes == {"ok", "error"}

\* Whether an upsert call the environment lets through returns: the collection
\* must exist, and the service refuses an update that carries no point.
UpsertReturns(coll, new, outcome) ==
    outcome = "ok" /\ coll.exists /\ DOMAIN new # {}

\* The collection kept when it exists, created when it does not.
RecreateKeeping(coll, del, create) ==
    IF create = "ok"
    THEN [ok |-> TRUE, coll |-> [exists |-> TRUE, points |-> coll.points]]
    ELSE [ok |-> FALSE, coll |-> coll]

\* delete_collection then create_collection, as both initialize functions call
\* them: a failed delete is swallowed, and creating a collection that still
\* exists is refused by the service.  [ok, coll]: ok = FALSE when create raised.
Recreate(coll, del, create) ==
    LET afterDelete == IF del = "ok" THEN [exists |-> FALSE, points |-> NoPoints] ELSE coll
    IN  IF create = "ok" /\ ~afterDelete.exists
        THEN [ok |-> TRUE, coll |-> [exists |-> TRUE, points |-> NoPoints]]
        ELSE [ok |-> FALSE, coll |-> afterDelete]

\* What the initialize functions print after delete_collection returned.
Deleted(del) == IF del = "ok" THEN {<<"deleted", 0>>} ELSE {}

(***************************************************************************)
(* The embedding service: the vectors returned for texts.  "short" is a    *)
(* response with one vector fewer than texts sent.                         *)
(***************************************************************************)
EmbedOutcomes == {"ok", "error", "short"}

Embed(texts, outcome) ==
    CASE outcome = "ok"    -> texts
      [] outcome = "short" -> SubSeq(texts, 1, Len(texts) - 1)
      [] OTHER             -> <<>>

Event(kind, off, sent, got, ok) ==
    [kind |-> kind, off |-> off, sent |-> sent, got |-> got, ok |-> ok]

(***************************************************************************)
(* Initial states: a program, its environment and its inputs.              *)
(***************************************************************************)
SourceIds == {"dense", "sparse"}

\* The k-th point (from 1) the source collection returns.
SourcePoint(style, k) ==
    [id |-> IF style = "dense" THEN k - 1 ELSE 3 * k + 7, payload |-> k - 1, vector |-> k - 1]

LocalCollections ==
    { [k \in 1..n |-> SourcePoint(style, k)] : n \in 0..MaxPoints, style \in SourceIds }

CloudCollections ==
    { [exists |-> FALSE, points |-> NoPoints],
      [exists |-> TRUE, points |-> NoPoints],
      [exists |-> TRUE, points |-> StalePoints] }

\* convert_numeric's argument and result when it is not the function run.
NoNumeral == [neg |-> FALSE, int |-> <<"0">>, frac |-> <<>>, dots |-> FALSE]

NotConverted == [ok |-> FALSE, nan |-> FALSE, text |-> <<"?">>]

NoPrev == [cloud |-> [exists |-> FALSE, points |-> NoPoints], log |-> <<>>]

Locals ==
    /\ processed_data = <<>>
    /\ i = 0
    /\ embeddings = <<>>
    /\ pbar = 0
    /\ points = <<>>
    /\ offset = 0
    /\ attempt = 0
    /\ successful_points = 0
    /\ verdict = "none"
    /\ log = <<>>
    /\ reports = {}

Init ==
    /\ prog \in {"ingest", "migrate"}
    /\ pc = "setup_clients"
    /\ run = 1
    /\ envOk \in BOOLEAN
    /\ cloud \in CloudCollections
    /\ \/ prog = "ingest" /\ csv \in CsvFiles /\ local = <<>>
       \/ prog = "migrate" /\ csv = NoCsv /\ local \in LocalCollections
    /\ prev = NoPrev
    /\ Locals
    /\ seq = <<>> /\ size = 1 /\ pos = 0 /\ chunks = <<>>
    /\ numeral = NoNumeral /\ converted = NotConverted
    /\ source_count = 0 /\ points_read = -1
    /\ query = <<>> /\ results = <<>> /\ stop_caught = FALSE

(***************************************************************************)
(* preprocess_data.py                                                      *)
(***************************************************************************)
\* setup_clients without the tests of the environment.
IngestSetupClientsUnchecked ==
    /\ prog = "ingest" /\ pc = "setup_clients"
    /\ UNCHANGED <<batcher, converter, scroller, querier>>
    /\ pc' = "initialize_collection"
    /\ UNCHANGED <<prog, run, envOk, csv, local, cloud, processed_data, i, embeddings,
                   pbar, points, offset, attempt, successful_points, verdict, log, prev,
                   reports>>

\* setup_clients: a missing key or URL raises ValueError, caught: sys.exit(1).
IngestSetupClients ==
    /\ prog = "ingest" /\ pc = "setup_clients"
    /\ UNCHANGED <<batcher, converter, scroller, querier>>
    /\ IF envOk
       THEN pc' = "initialize_collection" /\ UNCHANGED reports
       ELSE pc' = "exit" /\ reports' = reports \cup {<<"config_error", 0>>}
    /\ UNCHANGED <<prog, run, envOk, csv, local, cloud, processed_data, i, embeddings,
                   pbar, points, offset, attempt, successful_points, verdict, log, prev>>

initialize_collection ==
    /\ prog = "ingest" /\ pc = "initialize_collection"
    /\ UNCHANGED <<batcher, converter, scroller, querier>>
    /\ \E del \in Outcomes, create \in Outcomes :
          LET r == Recreate(cloud, del, create)
          IN  /\ cloud' = r.coll
              /\ IF r.ok
                 THEN pc' = "process_csv" /\ reports' = reports \cup Deleted(del)
                 ELSE /\ pc' = "exit"
                      /\ reports' = reports \cup Deleted(del) \cup {<<"create_error", 0>>}
    /\ UNCHANGED <<prog, run, envOk, csv, local, processed_data, i, embeddings,
                   pbar, points, offset, attempt, successful_points, verdict, log, prev>>

ProcessCsv ==
    /\ prog = "ingest" /\ pc = "process_csv"
    /\ UNCHANGED <<batcher, converter, scroller, querier>>
    /\ LET r == process_csv(csv)
       IN  IF r.ok
           THEN /\ processed_data' = r.data
                /\ reports' = reports \cup {<<"processed", Len(r.data)>>}
                \* for i in range(0, len(processed_data), BATCH_SIZE)
                /\ IF Len(r.data) > 0
                   THEN pc' = "embed"
                   ELSE pc' = "done"
           ELSE /\ processed_data' = <<>>
                /\ reports' = reports \cup {<<"csv_error", 0>>}
                /\ pc' = "exit"
    /\ i' = 0
    /\ UNCHANGED <<prog, run, envOk, csv, local, cloud, embeddings,
                   pbar, points, offset, attempt, successful_points, verdict, log, prev>>

\* The points populate_collection builds for the batch at offset i, with the
\* collection's size in place of the offset.
IngestPointsCounting(at, batch, vectors) ==
    LET n    == Min(Len(batch), Len(vectors))
        base == PointsCount(cloud)
    IN  [id \in base..(base + n - 1) |->
            [payload |-> batch[id - base + 1], vector |-> vectors[id - base + 1]]]

\* The points populate_collection builds for the batch at offset i:
\* id = i + idx over enumerate(zip(batch, embeddings)); zip stops at the shorter.
IngestPoints(at, batch, vectors) ==
    LET n == Min(Len(batch), Len(vectors))
    IN  [id \in at..(at + n - 1) |->
            [payload |-> batch[id - at + 1], vector |-> vectors[id - at + 1]]]

\* "Error processing batch {i//BATCH_SIZE + 1}"
BatchNumber(at) == (at \div INGEST_BATCH_SIZE) + 1

\* A loop whose step is one more than the batch size.
IngestAdvanceSkipping ==
    /\ i' = i + INGEST_BATCH_SIZE + 1
    /\ embeddings' = <<>>
    /\ pc' = IF i + INGEST_BATCH_SIZE + 1 < Len(processed_data) THEN "embed" ELSE "done"

\* A loop that tries the same batch again instead of moving on.
IngestAdvanceSameBatch ==
    /\ i' = i
    /\ embeddings' = <<>>
    /\ pc' = "embed"

\* A loop that starts over from the first batch after the last.
IngestAdvanceWrapping ==
    /\ i' = IF i + INGEST_BATCH_SIZE < Len(processed_data) THEN i + INGEST_BATCH_SIZE ELSE 0
    /\ embeddings' = <<>>
    /\ pc' = "embed"

\* The next iteration of populate_collection's loop, or its end and main's.
IngestAdvance ==
    /\ i' = i + INGEST_BATCH_SIZE
    /\ embeddings' = <<>>
    /\ pc' = IF i + INGEST_BATCH_SIZE < Len(processed_data) THEN "embed" ELSE "done"

\* populate_collection, first half of an iteration: the embedding call.
EmbedBatch ==
    /\ prog = "ingest" /\ pc = "embed"
    /\ UNCHANGED <<batcher, converter, scroller, querier>>
    /\ LET batch == Slice(processed_data, i, i + INGEST_BATCH_SIZE)
       IN  \E o \in EmbedOutcomes :
              IF o = "error"
              THEN /\ log' = Append(log, Event("embed", i, Len(batch), 0, FALSE))
                   /\ reports' = reports \cup {<<"batch_failed", BatchNumber(i)>>}
                   /\ IngestAdvance
              ELSE /\ embeddings' = Embed(batch, o)
                   /\ log' = Append(log, Event("embed", i, Len(batch),
                                               Len(Embed(batch, o)), TRUE))
                   /\ pc' = "upsert"
                   /\ UNCHANGED <<i, reports>>
    /\ UNCHANGED <<prog, run, envOk, csv, local, cloud, processed_data,
                   pbar, points, offset, attempt, successful_points, verdict, prev>>

\* populate_collection, second half of an iteration: the upsert call.
UpsertBatch ==
    /\ prog = "ingest" /\ pc = "upsert"
    /\ UNCHANGED <<batcher, converter, scroller, querier>>
    /\ LET batch == Slice(processed_data, i, i + INGEST_BATCH_SIZE)
           new   == IngestPoints(i, batch, embeddings)
           n     == Cardinality(DOMAIN new)
       IN  \E o \in Outcomes :
              IF UpsertReturns(cloud, new, o)
              THEN /\ cloud' = [cloud EXCEPT !.points = Upsert(@, new)]
                   /\ log' = Append(log, Event("upsert", i, n, n, TRUE))
                   /\ pbar' = pbar + Len(batch)
                   /\ UNCHANGED reports
              ELSE /\ log' = Append(log, Event("upsert", i, n, 0, FALSE))
                   /\ reports' = reports \cup {<<"batch_failed", BatchNumber(i)>>}
                   /\ UNCHANGED <<cloud, pbar>>
    /\ IngestAdvance
    /\ UNCHANGED <<prog, run, envOk, csv, local, processed_data,
                   points, offset, attempt, successful_points, verdict, prev>>

\* The operator runs the ingestion again on the same dataset.
Rerun ==
    /\ prog = "ingest" /\ pc = "done" /\ run = 1
    /\ UNCHANGED <<batcher, converter, scroller, querier>>
    /\ csv.n <= MaxRerunRows
    /\ run' = 2
    /\ prev' = [cloud |-> cloud, log |-> log]
    /\ pc' = "setup_clients"
    /\ processed_data' = <<>> /\ i' = 0 /\ embeddings' = <<>> /\ pbar' = 0
    /\ log' = <<>> /\ reports' = {}
    /\ UNCHANGED <<points, offset, attempt, successful_points, verdict>>
    /\ UNCHANGED <<prog, envOk, csv, local, cloud>>

(***************************************************************************)
(* migrate_to_cloud.py                                                     *)
(***************************************************************************)
MigrateSetupClients ==
    /\ prog = "migrate" /\ pc = "setup_clients"
    /\ UNCHANGED <<batcher, converter, scroller, querier>>
    /\ IF envOk
       THEN pc' = "initialize_cloud_collection" /\ UNCHANGED reports
       ELSE pc' = "exit" /\ reports' = reports \cup {<<"config_error", 0>>}
    /\ UNCHANGED <<prog, run, envOk, csv, local, cloud, processed_data, i, embeddings,
                   pbar, points, offset, attempt, successful_points, verdict, log, prev>>

initialize_cloud_collection ==
    /\ prog = "migrate" /\ pc = "initialize_cloud_collection"
    /\ UNCHANGED <<batcher, converter, scroller, querier>>
    /\ \E del \in Outcomes, create \in Outcomes :
          LET r == Recreate(cloud, del, create)
          IN  /\ cloud' = r.coll
              /\ IF r.ok
                 THEN pc' = "migrate_data" /\ reports' = reports \cup Deleted(del)
                 \* it re-raises, and main does not catch
                 ELSE /\ pc' = "crashed"
                      /\ reports' = reports \cup Deleted(del) \cup {<<"create_error", 0>>}
    /\ UNCHANGED <<prog, run, envOk, csv, local, processed_data, i, embeddings,
                   pbar, points, offset, attempt, successful_points, verdict, log, prev>>

\* main verifying whatever migrate_data returned.
MainAfterMigrateAlways(count, printed) ==
    pc' = "verify_migration" /\ reports' = printed

\* main after migrate_data returned count: verify, or report the failed run.
MainAfterMigrate(count, printed) ==
    IF count > 0
    THEN pc' = "verify_migration" /\ reports' = printed
    ELSE pc' = "done" /\ reports' = printed \cup {<<"run_failed", 0>>}

\* len(scroll(limit=100000)[0]) on a collection of n points: the first page.
ScrollReturns(n) == Min(n, SCROLL_LIMIT)

\* migrate_data up to its loop: the scroll of the source collection.
ScrollSource ==
    /\ prog = "migrate" /\ pc = "migrate_data"
    /\ UNCHANGED <<batcher, converter, scroller, querier>>
    /\ \E o \in Outcomes :
          IF o = "ok"
          THEN LET got == Slice(local, 0, SCROLL_LIMIT)
               IN  /\ points' = got
                   \* while offset < total_points, with offset = 0
                   /\ IF 0 < Len(got)
                      THEN pc' = "migrate_batch"
                           /\ reports' = reports \cup {<<"total_points", Len(got)>>}
                      ELSE MainAfterMigrate(0, reports \cup {<<"total_points", 0>>})
          ELSE /\ points' = <<>>
               /\ MainAfterMigrate(0, reports \cup {<<"migration_error", 0>>})
    /\ offset' = 0 /\ successful_points' = 0 /\ attempt' = 0
    /\ UNCHANGED <<prog, run, envOk, csv, local, cloud, processed_data, i, embeddings,
                   pbar, verdict, log, prev>>

\* The points of the batch uploaded under the ids they have in the source.
MigratePointsKeepingIds(at, batch) ==
    [id \in {batch[k].id : k \in 1..Len(batch)} |->
        LET k == CHOOSE j \in 1..Len(batch) : batch[j].id = id
        IN  [payload |-> batch[k].payload, vector |-> batch[k].vector]]

\* The points migrate_batch uploads for the batch at offset:
\* ids = range(offset, offset + len(batch)), zipped with vectors and payloads.
MigratePoints(at, batch) ==
    [id \in at..(at + Len(batch) - 1) |->
        [payload |-> batch[id - at + 1].payload, vector |-> batch[id - at + 1].vector]]

\* A retry loop that sleeps and tries again after every failure.
RetriesLeftAlways(a) == TRUE

\* migrate_batch's "attempt < MAX_RETRIES - 1": another attempt follows.
RetriesLeft(a) == a < MAX_RETRIES - 1

\* A loop that goes on to the next batch after a failed one.
StopAfterFailureNever(success) == FALSE

\* migrate_data's "if not success: break"
StopAfterFailure(success) == ~success

\* migrate_data after migrate_batch returned success for the batch at offset:
\* the counters, then the loop test and, at the loop's end, main.
\* A loop that leaves offset where it is after a batch was stored.
MigrateLoopStaying(success, printed) ==
    IF StopAfterFailure(success)
    THEN /\ UNCHANGED <<offset, successful_points, pbar>>
         /\ attempt' = 0
         /\ MainAfterMigrate(successful_points, printed)
    ELSE /\ UNCHANGED <<offset, successful_points, pbar>>
         /\ attempt' = 0
         /\ pc' = "migrate_batch" /\ reports' = printed

\* A loop that counts a whole batch for every batch stored, the last included.
MigrateLoopCountingWhole(success, printed) ==
    LET total_points == Len(points)
        batch_size   == Min(BATCH_SIZE, total_points - offset)
    IN  IF StopAfterFailure(success)
        THEN /\ UNCHANGED <<offset, successful_points, pbar>>
             /\ attempt' = 0
             /\ MainAfterMigrate(successful_points, printed)
        ELSE /\ offset' = offset + batch_size
             /\ successful_points' = successful_points + BATCH_SIZE
             /\ pbar' = pbar + batch_size
             /\ attempt' = 0
             /\ IF offset + batch_size < total_points
                THEN pc' = "migrate_batch" /\ reports' = printed
                ELSE MainAfterMigrate(successful_points + BATCH_SIZE, printed)

MigrateLoop(success, printed) ==
    LET total_points == Len(points)
        batch_size   == Min(BATCH_SIZE, total_points - offset)
    IN  IF StopAfterFailure(success)
        THEN /\ UNCHANGED <<offset, successful_points, pbar>>
             /\ attempt' = 0
             /\ MainAfterMigrate(successful_points, printed)
        ELSE /\ offset' = offset + batch_size
             /\ successful_points' = successful_points + batch_size
             /\ pbar' = pbar + batch_size
             /\ attempt' = 0
             /\ IF offset + batch_size < total_points
                THEN pc' = "migrate_batch" /\ reports' = printed
                ELSE MainAfterMigrate(successful_points + batch_size, printed)

\* One attempt of migrate_batch for the batch at offset and what follows it up
\* to the next upsert call: a sleep, or the return into migrate_data's loop.
MigrateBatchAttempt ==
    /\ prog = "migrate" /\ pc = "migrate_batch"
    /\ UNCHANGED <<batcher, converter, scroller, querier>>
    /\ LET batch == Slice(points, offset, offset + BATCH_SIZE)
           new   == MigratePoints(offset, batch)
           n     == Cardinality(DOMAIN new)
       IN  IF Len(batch) = 0
           THEN \* "if not batch: return True"
                /\ log' = Append(log, Event("return", offset, 0, 0, TRUE))
                /\ MigrateLoop(TRUE, reports)
                /\ UNCHANGED cloud
           ELSE \E o \in Outcomes :
                  IF UpsertReturns(cloud, new, o)
                  THEN /\ cloud' = [cloud EXCEPT !.points = Upsert(@, new)]
                       /\ log' = log \o << Event("upsert", offset, n, n, TRUE),
                                           Event("return", offset, 0, 0, TRUE) >>
                       /\ MigrateLoop(TRUE, reports)
                  ELSE IF RetriesLeft(attempt)
                  THEN /\ log' = log \o << Event("upsert", offset, n, 0, FALSE),
                                           Event("sleep", offset, 0, 0, TRUE) >>
                       /\ reports' = reports \cup {<<"retrying", offset>>}
                       /\ attempt' = attempt + 1
                       /\ UNCHANGED <<cloud, pc, offset, successful_points, pbar>>
                  ELSE /\ log' = log \o << Event("upsert", offset, n, 0, FALSE),
                                           Event("return", offset, 0, 0, FALSE) >>
                       /\ MigrateLoop(FALSE, reports \cup {<<"batch_failed", offset>>})
                       /\ UNCHANGED cloud
    /\ UNCHANGED <<prog, run, envOk, csv, local, processed_data, i, embeddings,
                   points, verdict, prev>>

\* A comparison that accepts a destination holding at most the source's count.
CountsAgreeAtMost(local_count, cloud_count) == cloud_count <= local_count

\* verify_migration's "local_count == cloud_count"
CountsAgree(local_count, cloud_count) == local_count = cloud_count

\* verify_migration without its try/except: a failed read of a count ends main.
verify_migration_raising ==
    /\ prog = "migrate" /\ pc = "verify_migration"
    /\ UNCHANGED <<batcher, converter, scroller, querier>>
    /\ \E lo \in Outcomes, co \in Outcomes :
          IF lo = "ok" /\ co = "ok" /\ cloud.exists
          THEN /\ verdict' = IF CountsAgree(Len(local), PointsCount(cloud))
                             THEN "Verified" ELSE "Mismatched"
               /\ reports' = reports \cup
                     { <<"local_count", Len(local)>>, <<"cloud_count", PointsCount(cloud)>>,
                       IF CountsAgree(Len(local), PointsCount(cloud))
                       THEN <<"verified", 0>> ELSE <<"mismatch", 0>> }
               /\ pc' = "done"
          ELSE /\ pc' = "crashed"
               /\ UNCHANGED <<verdict, reports>>
    /\ UNCHANGED <<prog, run, envOk, csv, local, cloud, processed_data, i, embeddings,
                   pbar, points, offset, attempt, successful_points, log, prev>>

verify_migration ==
    /\ prog = "migrate" /\ pc = "verify_migration"
    /\ UNCHANGED <<batcher, converter, scroller, querier>>
    /\ \E lo \in Outcomes, co \in Outcomes :
          IF lo = "ok" /\ co = "ok" /\ cloud.exists
          THEN LET local_count == Len(local)
                   cloud_count == PointsCount(cloud)
               IN  /\ verdict' = IF CountsAgree(local_count, cloud_count)
                                 THEN "Verified" ELSE "Mismatched"
                   /\ reports' = reports \cup
                         { <<"local_count", local_count>>, <<"cloud_count", cloud_count>>,
                           IF CountsAgree(local_count, cloud_count)
                           THEN <<"verified", 0>> ELSE <<"mismatch", 0>> }
          ELSE /\ verdict' = "Error"
               /\ reports' = reports \cup {<<"verify_error", 0>>}
    /\ pc' = "done"
    /\ UNCHANGED <<prog, run, envOk, csv, local, cloud, processed_data, i, embeddings,
                   pbar, points, offset, attempt, successful_points, log, prev>>

Next ==
    \/ IngestSetupClients
    \/ initialize_collection
    \/ ProcessCsv
    \/ EmbedBatch
    \/ UpsertBatch
    \/ Rerun
    \/ MigrateSetupClients
    \/ initialize_cloud_collection
    \/ ScrollSource
    \/ MigrateBatchAttempt
    \/ verify_migration

Spec == Init /\ [][Next]_vars

(***************************************************************************)
(* The scroll of migrate_data alone, by the number of points: on source    *)
(* collections of every small size and of the sizes around its limit.      *)
(***************************************************************************)
SourceCounts == 0..MaxPoints \cup {SCROLL_LIMIT - 1, SCROLL_LIMIT, SCROLL_LIMIT + 1}

ScrollInit ==
    /\ prog = "scroller"
    /\ pc = "migrate_data"
    /\ run = 1
    /\ envOk = TRUE
    /\ cloud = [exists |-> TRUE, points |-> NoPoints]
    /\ csv = NoCsv
    /\ local = <<>>
    /\ prev = NoPrev
    /\ Locals
    /\ seq = <<>> /\ size = 1 /\ pos = 0 /\ chunks = <<>>
    /\ numeral = NoNumeral /\ converted = NotConverted
    /\ source_count \in SourceCounts
    /\ points_read = -1
    /\ query = <<>> /\ results = <<>> /\ stop_caught = FALSE

\* points = scroll(...)[0]; total_points = len(points)
ScrollCount ==
    /\ prog = "scroller" /\ pc = "migrate_data"
    /\ points_read' = ScrollReturns(source_count)
    /\ reports' = reports \cup {<<"total_points", points_read'>>}
    /\ pc' = "migrate_batch"
    /\ UNCHANGED <<prog, run, envOk, csv, local, cloud, processed_data, i, embeddings,
                   pbar, points, offset, attempt, successful_points, verdict, log,
                   prev, source_count>>
    /\ UNCHANGED <<batcher, converter, querier>>

ScrollNext == ScrollCount

ScrollSpec == ScrollInit /\ [][ScrollNext]_vars

(***************************************************************************)
(* The batcher alone: the chunks both loops take from a sequence,          *)
(* seq[pos : pos + size] for pos = 0, size, 2 * size, ... while pos < len(seq).*)
(***************************************************************************)
Items == {1, 2}

InputSeqs == UNION { [1..n -> Items] : n \in 0..MaxSeqLen }

BatchInit ==
    /\ prog = "batcher"
    /\ pc = "batching"
    /\ run = 1
    /\ envOk = TRUE
    /\ cloud = [exists |-> FALSE, points |-> NoPoints]
    /\ csv = NoCsv
    /\ local = <<>>
    /\ prev = NoPrev
    /\ Locals
    /\ seq \in InputSeqs
    /\ size \in 1..MaxBatchSize
    /\ pos = 0
    /\ chunks = <<>>
    /\ numeral = NoNumeral /\ converted = NotConverted
    /\ source_count = 0 /\ points_read = -1
    /\ query = <<>> /\ results = <<>> /\ stop_caught = FALSE

TakeChunk ==
    /\ prog = "batcher"
    /\ pos < Len(seq)
    /\ chunks' = Append(chunks, Slice(seq, pos, pos + size))
    /\ pos' = pos + size
    /\ UNCHANGED <<prog, pc, run, envOk, csv, local, cloud, processed_data, i, embeddings,
                   pbar, points, offset, attempt, successful_points, verdict, log, reports,
                   prev, seq, size, numeral, converted>>
    /\ UNCHANGED <<scroller, querier>>

BatchNext == TakeChunk

BatchSpec == BatchInit /\ [][BatchNext]_vars

(***************************************************************************)
(* convert_numeric alone, on the text of a locale-formatted numeral: an    *)
(* optional sign, the digits of the integer part with or without a dot     *)
(* before each group of three, and a comma before the decimals if any.     *)
(***************************************************************************)
MaxIntDigits == 4

MaxFracDigits == 2

NumeralDigits == {"0", "1", "2"}

DigitSeqs(lo, hi) == UNION { [1..n -> NumeralDigits] : n \in lo..hi }

Numerals ==
    [neg : BOOLEAN, int : DigitSeqs(1, MaxIntDigits), frac : DigitSeqs(0, MaxFracDigits),
     dots : BOOLEAN]

RECURSIVE Group(_)
\* The digits with a dot before each group of three, from the right.
Group(digits) ==
    IF Len(digits) <= 3
    THEN digits
    ELSE Group(SubSeq(digits, 1, Len(digits) - 3)) \o <<".">>
         \o SubSeq(digits, Len(digits) - 2, Len(digits))

\* The text of a numeral.
NumeralText(n) ==
    (IF n.neg THEN <<"-">> ELSE <<>>)
    \o (IF n.dots THEN Group(n.int) ELSE n.int)
    \o (IF n.frac = <<>> THEN <<>> ELSE <<",">> \o n.frac)

DigitValue(c) == CHOOSE d \in 0..9 : <<"0", "1", "2", "3", "4", "5", "6", "7", "8", "9">>[d + 1] = c

RECURSIVE NatOf(_)
NatOf(digits) ==
    IF digits = <<>>
    THEN 0
    ELSE NatOf(SubSeq(digits, 1, Len(digits) - 1)) * 10 + DigitValue(digits[Len(digits)])

\* The number float() reads in a text it accepts: mantissa / 10^scale, negated
\* when neg.
Number(text) ==
    LET neg  == Len(text) > 0 /\ text[1] = "-"
        body == IF Len(text) > 0 /\ text[1] \in {"-", "+"} THEN Tail(text) ELSE text
        dot  == IF \E k \in 1..Len(body) : body[k] = "."
                THEN CHOOSE k \in 1..Len(body) : body[k] = "."
                ELSE Len(body) + 1
    IN  [neg      |-> neg,
         mantissa |-> NatOf(SelectSeq(body, LAMBDA c : c # ".")),
         scale    |-> IF dot > Len(body) THEN 0 ELSE Len(body) - dot]

ConvertInit ==
    /\ prog = "converter"
    /\ pc = "convert_numeric"
    /\ run = 1
    /\ envOk = TRUE
    /\ cloud = [exists |-> FALSE, points |-> NoPoints]
    /\ csv = NoCsv
    /\ local = <<>>
    /\ prev = NoPrev
    /\ Locals
    /\ seq = <<>> /\ size = 1 /\ pos = 0 /\ chunks = <<>>
    /\ numeral \in Numerals
    /\ converted = NotConverted
    /\ source_count = 0 /\ points_read = -1
    /\ query = <<>> /\ results = <<>> /\ stop_caught = FALSE

Convert ==
    /\ prog = "converter" /\ pc = "convert_numeric"
    /\ converted' = convert_numeric([type |-> "str", chars |-> NumeralText(numeral)])
    /\ pc' = "returned"
    /\ UNCHANGED <<prog, run, envOk, csv, local, cloud, processed_data, i, embeddings,
                   pbar, points, offset, attempt, successful_points, verdict, log, reports,
                   prev, numeral>>
    /\ UNCHANGED <<batcher, scroller, querier>>

ConvertNext == Convert

ConvertSpec == ConvertInit /\ [][ConvertNext]_vars

(***************************************************************************)
(* app.py: one run of the page's script.  What the page shows is recorded  *)
(* in reports: <<"st_error", h>> with h the handler that showed it (0      *)
(* check_collection_exists, 1 search_similar_transactions, 2               *)
(* get_answer_from_gpt, 3 main), <<"st_warning", 0>> and <<"st_success",   *)
(* 0>>.  st.stop() ends the script by raising; whether main's "except      *)
(* Exception" catches what it raises is left open (stop_caught).           *)
(***************************************************************************)
MaxHits == 3

Queries == { <<>>, <<" ">>, <<"q">> }

\* A hit of the search: the id of its point, and whether its payload has 'text'.
Hits == [id : {0, 1}, has_text : BOOLEAN]

\* What search(limit=limit) may return.
HitLists(limit) == UNION { [1..n -> Hits] : n \in 0..Min(limit, MaxHits) }

\* st.error in the handler h, then st.stop(): the script ends there, or
\* main's handler shows its own error first.
ErrorAndStop(h) ==
    /\ reports' = reports \cup {<<"st_error", h>>}
                          \cup (IF stop_caught THEN {<<"st_error", 3>>} ELSE {})
    /\ pc' = "stopped"

\* main's "if results:" with any list taken for results.
HasResultsAlways(r) == TRUE

\* main's "if results:"
HasResults(r) == r # <<>>

QueryInit ==
    /\ prog = "query"
    /\ pc = "check_collection_exists"
    /\ run = 1
    /\ envOk = TRUE
    /\ cloud = [exists |-> TRUE, points |-> NoPoints]
    /\ csv = NoCsv
    /\ local = <<>>
    /\ prev = NoPrev
    /\ Locals
    /\ seq = <<>> /\ size = 1 /\ pos = 0 /\ chunks = <<>>
    /\ numeral = NoNumeral /\ converted = NotConverted
    /\ source_count = 0 /\ points_read = -1
    /\ query \in Queries
    /\ results = <<>>
    /\ stop_caught \in BOOLEAN

QueryUnchanged ==
    UNCHANGED <<prog, run, envOk, csv, local, cloud, processed_data, i, embeddings,
                pbar, points, offset, attempt, successful_points, verdict, prev,
                query, stop_caught, batcher, converter, scroller>>

\* check_collection_exists: the count read is positive, zero, or the read fails.
CheckCollection ==
    /\ prog = "query" /\ pc = "check_collection_exists"
    /\ \E o \in {"ok", "empty", "error"} :
          IF o = "ok"
          THEN pc' = "text_input" /\ UNCHANGED reports
          ELSE ErrorAndStop(0)
    /\ UNCHANGED <<log, results>>
    /\ QueryUnchanged

\* query = st.text_input(...); if query:
TextInput ==
    /\ prog = "query" /\ pc = "text_input"
    /\ pc' = IF query # <<>> THEN "embeddings_create" ELSE "done"
    /\ UNCHANGED <<log, results, reports>>
    /\ QueryUnchanged

\* search_similar_transactions, the embedding of the query: response.data[0]
EmbedQuery ==
    /\ prog = "query" /\ pc = "embeddings_create"
    /\ \E o \in EmbedOutcomes :
          LET data == Embed(<<query>>, o)
          IN  /\ log' = Append(log, Event("embed_query", 0, 1, Len(data), o # "error"))
              /\ IF Len(data) > 0
                 THEN pc' = "search" /\ UNCHANGED reports
                 ELSE ErrorAndStop(1)
    /\ UNCHANGED results
    /\ QueryUnchanged

\* search_similar_transactions, the search of the collection
SearchIndex ==
    /\ prog = "query" /\ pc = "search"
    /\ \E o \in Outcomes :
          IF o = "ok"
          THEN \E found \in HitLists(SEARCH_LIMIT) :
                  /\ results' = found
                  /\ log' = Append(log, Event("search", 0, 1, Len(found), TRUE))
                  /\ pc' = "if_results" /\ UNCHANGED reports
          ELSE /\ log' = Append(log, Event("search", 0, 1, 0, FALSE))
               /\ ErrorAndStop(1)
               /\ UNCHANGED results
    /\ QueryUnchanged

\* main: if results: relevant_texts = [hit.payload['text'] ...] else: st.warning
ShowResults ==
    /\ prog = "query" /\ pc = "if_results"
    /\ IF HasResults(results)
       THEN IF \A k \in 1..Len(results) : results[k].has_text
            THEN pc' = "get_answer_from_gpt" /\ UNCHANGED reports
            \* KeyError, caught by main
            ELSE pc' = "done" /\ reports' = reports \cup {<<"st_error", 3>>}
       ELSE pc' = "done" /\ reports' = reports \cup {<<"st_warning", 0>>}
    /\ UNCHANGED <<log, results>>
    /\ QueryUnchanged

\* get_answer_from_gpt and st.success(answer)
AnswerFromGpt ==
    /\ prog = "query" /\ pc = "get_answer_from_gpt"
    /\ \E o \in Outcomes :
          /\ log' = Append(log, Event("chat", 0, Len(results), 1, o = "ok"))
          /\ IF o = "ok"
             THEN pc' = "done" /\ reports' = reports \cup {<<"st_success", 0>>}
             ELSE ErrorAndStop(2)
    /\ UNCHANGED results
    /\ QueryUnchanged

QueryNext ==
    \/ CheckCollection
    \/ TextInput
    \/ EmbedQuery
    \/ SearchIndex
    \/ ShowResults
    \/ AnswerFromGpt

QuerySpec == QueryInit /\ [][QueryNext]_vars

(***************************************************************************)
(* What the properties below read from a state.                            *)
(***************************************************************************)
Ended == pc \in {"done", "exit", "crashed"}

BatchSizeOf(program) == IF program = "ingest" THEN INGEST_BATCH_SIZE ELSE BATCH_SIZE

\* The run's input sequence, once read.
Input == IF prog = "ingest" THEN processed_data ELSE points

\* The offsets of the batches of the input.
BatchOffsets == {b \in 0..(Len(Input) - 1) : b % BatchSizeOf(prog) = 0}

BatchLen(b) == Len(Slice(Input, b, b + BatchSizeOf(prog)))

EventsFor(kind, b) == {k \in DOMAIN log : log[k].kind = kind /\ log[k].off = b}

\* A service call was issued for the batch at b.
Attempted(b) == EventsFor("embed", b) \cup EventsFor("upsert", b) # {}

ReportedFailed(b) ==
    <<"batch_failed", IF prog = "ingest" THEN BatchNumber(b) ELSE b>> \in reports

\* The batches every upsert attempt of which failed, the budget spent.
Exhausted ==
    {b \in BatchOffsets :
        /\ EventsFor("upsert", b) # {}
        /\ \A k \in EventsFor("upsert", b) : ~log[k].ok
        /\ ReportedFailed(b)}

RECURSIVE SumLen(_)
SumLen(S) == IF S = {} THEN 0
             ELSE LET b == CHOOSE x \in S : TRUE IN BatchLen(b) + SumLen(S \ {b})

\* The batches whose upsert returned.
Succeeded == {b \in BatchOffsets : \E k \in EventsFor("upsert", b) : log[k].ok}

(***************************************************************************)
(* C1 as stated: in any ingestion or migration run, after a batch whose    *)
(* upsert exhausted its retries every later batch of the input is still    *)
(* attempted, and the run ends normally with the failure reflected in the  *)
(* final success count.                                                    *)
(***************************************************************************)
C1_ContinuesAfterFailure ==
    Ended =>
        \A b \in Exhausted :
            /\ pc = "done"
            /\ \A later \in BatchOffsets : later > b => Attempted(later)

(***************************************************************************)
(* C1, amended: an ingestion run attempts every batch of its input         *)
(* whatever failed before (the embedding call is issued for each), ends    *)
(* normally and counts in pbar exactly the batches whose upsert returned.  *)
(* A migration run stops streaming at the first batch that exhausts its    *)
(* retries: no later batch is attempted, successful_points is the offset   *)
(* of that batch, and the run goes on normally to verification or to the   *)
(* failed-run report.                                                      *)
(***************************************************************************)
C1_FailureHandling ==
    /\ (prog = "ingest" /\ Ended /\ Len(processed_data) > 0) =>
          /\ pc = "done"
          /\ \A b \in BatchOffsets : EventsFor("embed", b) # {}
          /\ pbar = SumLen(Succeeded)
          /\ Exhausted # {} => pbar < Len(processed_data)
    /\ prog = "migrate" =>
          \A b \in Exhausted :
              /\ \A later \in BatchOffsets : later > b => ~Attempted(later)
              /\ successful_points = b
              /\ successful_points < Len(points)
              /\ pc \in {"verify_migration", "done"}
              /\ (pc = "done" /\ b = 0) => <<"run_failed", 0>> \in reports
              /\ (pc = "done" /\ b > 0) => verdict # "none"

C1_Witness ==
    /\ prog = "migrate" /\ pc = "done"
    /\ Exhausted = {BATCH_SIZE}
    /\ \E later \in BatchOffsets : later > BATCH_SIZE

(***************************************************************************)
(* C2 as stated: no run ends with fewer points in the destination than     *)
(* there were source rows or points unless a discrepancy was reported      *)
(* during the run.                                                         *)
(***************************************************************************)
SourceCount == IF prog = "ingest" THEN csv.n ELSE Len(local)

DiscrepancyKinds ==
    {"batch_failed", "mismatch", "run_failed", "verify_error", "migration_error",
     "config_error", "create_error", "csv_error"}

DiscrepancyReported == \E r \in reports : r[1] \in DiscrepancyKinds

C2_NoSilentDataLoss ==
    (Ended /\ prog \in {"ingest", "migrate"} /\ PointsCount(cloud) < SourceCount)
        => DiscrepancyReported

(***************************************************************************)
(* C3: migrate_batch issues at most MAX_RETRIES upsert attempts for a      *)
(* batch, returns success at the first attempt that succeeds and issues    *)
(* none after it, returns failure exactly when MAX_RETRIES attempts        *)
(* failed, and sleeps after every failed attempt but the last one, and at  *)
(* no other time.                                                          *)
(***************************************************************************)
\* The number of the attempt logged at k, counting the batch's attempts from 1.
AttemptNo(k) == Cardinality({j \in EventsFor("upsert", log[k].off) : j <= k})

IsReturn(k, b, ok) ==
    k \in DOMAIN log /\ log[k].kind = "return" /\ log[k].off = b /\ log[k].ok = ok

C3_RetryPolicy ==
    prog = "migrate" =>
        /\ \A b \in BatchOffsets :
              LET ups == EventsFor("upsert", b)
              IN  /\ Cardinality(ups) <= MAX_RETRIES
                  /\ Cardinality(EventsFor("return", b)) <= 1
                  /\ \A k \in ups : log[k].sent = BatchLen(b)
                  /\ \A k \in ups : log[k].ok =>
                        /\ \A j \in ups : j <= k
                        /\ IsReturn(k + 1, b, TRUE)
                  /\ (\E k \in DOMAIN log : IsReturn(k, b, FALSE))
                        <=> Cardinality({k \in ups : ~log[k].ok}) = MAX_RETRIES
                  /\ (\E k \in DOMAIN log : IsReturn(k, b, TRUE))
                        <=> (\E k \in ups : log[k].ok)
        /\ \A k \in DOMAIN log :
              /\ (log[k].kind = "upsert" /\ ~log[k].ok /\ AttemptNo(k) < MAX_RETRIES)
                    => (k + 1 \in DOMAIN log /\ log[k + 1].kind = "sleep")
              /\ log[k].kind = "sleep" =>
                    /\ k > 1 /\ log[k - 1].kind = "upsert" /\ ~log[k - 1].ok
                    /\ log[k - 1].off = log[k].off
                    /\ AttemptNo(k - 1) < MAX_RETRIES
                    /\ k + 1 \in DOMAIN log =>
                          log[k + 1].kind = "upsert" /\ log[k + 1].off = log[k].off

C3_Witness ==
    /\ prog = "migrate"
    /\ \E b \in BatchOffsets :
          /\ b > 0
          /\ Cardinality(EventsFor("upsert", b)) = MAX_RETRIES
          /\ Cardinality(EventsFor("sleep", b)) = MAX_RETRIES - 1
          /\ \E k \in DOMAIN log : IsReturn(k, b, FALSE)
    /\ \E k \in DOMAIN log : log[k].kind = "upsert" /\ log[k].ok /\ AttemptNo(k) = 2

(***************************************************************************)
(* C4 as stated: in the ingestion a failed embedding or upsert call is     *)
(* retried before the batch is recorded as failed; a batch is never        *)
(* recorded as failed after a single failed attempt.                       *)
(***************************************************************************)
\* The failed service calls issued for the batch at b.
FailedCalls(b) ==
    {k \in EventsFor("embed", b) \cup EventsFor("upsert", b) : ~log[k].ok}

C4_RetriedBeforeFailed ==
    prog = "ingest" =>
        \A b \in BatchOffsets : ReportedFailed(b) => Cardinality(FailedCalls(b)) > 1

(***************************************************************************)
(* C4, amended: the ingestion never retries.  For every batch it issues    *)
(* the embedding call once and the upsert call at most once, and the batch *)
(* is recorded as failed exactly when that single embedding call or that   *)
(* single upsert call failed.                                              *)
(***************************************************************************)
C4_SingleAttempt ==
    prog = "ingest" =>
        \A b \in BatchOffsets :
            /\ Cardinality(EventsFor("embed", b)) <= 1
            /\ Cardinality(EventsFor("upsert", b)) <= 1
            /\ Cardinality(FailedCalls(b)) <= 1
            /\ ReportedFailed(b) <=> FailedCalls(b) # {}

C4_Witness ==
    /\ prog = "ingest" /\ pc = "done"
    /\ ReportedFailed(0) /\ Cardinality(FailedCalls(0)) = 1
    /\ \E k \in EventsFor("upsert", 0) : ~log[k].ok
    /\ INGEST_BATCH_SIZE \in Succeeded

(***************************************************************************)
(* C5 as stated: whenever verification runs, the outcome is Verified       *)
(* exactly when the destination's point count equals the source's, and     *)
(* Mismatched otherwise, and both counts are reported.                     *)
(***************************************************************************)
CountsReported ==
    /\ <<"local_count", Len(local)>> \in reports
    /\ <<"cloud_count", PointsCount(cloud)>> \in reports

C5_VerifiedIffCountsEqual ==
    verdict # "none" =>
        /\ verdict = (IF PointsCount(cloud) = Len(local) THEN "Verified" ELSE "Mismatched")
        /\ CountsReported

(***************************************************************************)
(* C5, amended: whenever verification runs and reads both counts, the      *)
(* outcome is Verified exactly when the destination's point count equals   *)
(* the source's and Mismatched otherwise, and both counts are reported;    *)
(* when reading a count fails the outcome is an error report, without      *)
(* counts and never Verified.  After any outcome no upsert is issued and   *)
(* the destination does not change.                                        *)
(***************************************************************************)
C5_Outcome ==
    /\ verdict \in {"Verified", "Mismatched"} =>
          /\ verdict = (IF PointsCount(cloud) = Len(local)
                        THEN "Verified" ELSE "Mismatched")
          /\ CountsReported
          /\ <<"verified", 0>> \in reports <=> verdict = "Verified"
          /\ <<"mismatch", 0>> \in reports <=> verdict = "Mismatched"
    /\ verdict = "Error" =>
          /\ <<"verify_error", 0>> \in reports
          /\ \A r \in reports : r[1] \notin {"local_count", "cloud_count", "verified"}
    /\ verdict # "none" => pc = "done"

\* C5, amended, whole: the outcome in every state, and nothing is upserted or
\* changed in the destination once verification has given its outcome.
C5_Verification ==
    /\ []C5_Outcome
    /\ [][verdict # "none" => (log' = log /\ cloud' = cloud /\ verdict' = verdict)]_vars

C5_Witness ==
    /\ verdict = "Mismatched"
    /\ CountsReported
    /\ 0 < PointsCount(cloud) /\ PointsCount(cloud) < Len(local)

(***************************************************************************)
(* C6: upserting a batch again (same offset, same points) into the         *)
(* destination that already received it leaves the destination as it is:   *)
(* the same ids, the same count, the same points.  And an ingestion run    *)
(* again on the same input, with the services answering as in the first    *)
(* run, ends with the collection the first run left.                       *)
(***************************************************************************)
\* The points the run built for the batch at b, from what the log recorded.
PointsBuilt(b) ==
    LET batch == Slice(Input, b, b + BatchSizeOf(prog))
    IN  IF prog = "ingest"
        THEN LET k == CHOOSE k \in EventsFor("embed", b) : TRUE
             IN  IngestPoints(b, batch, SubSeq(batch, 1, log[k].got))
        ELSE MigratePoints(b, batch)

C6_IdempotentUpsert ==
    /\ \A b \in Succeeded :
          LET again == Upsert(cloud.points, PointsBuilt(b))
          IN  /\ DOMAIN again = DOMAIN cloud.points
              /\ Cardinality(DOMAIN again) = PointsCount(cloud)
              /\ again = cloud.points
    /\ (prog = "ingest" /\ run = 2 /\ pc = "done" /\ log = prev.log)
          => cloud = prev.cloud

C6_Witness ==
    /\ prog = "ingest" /\ run = 2 /\ pc = "done" /\ log = prev.log
    /\ csv.n > INGEST_BATCH_SIZE
    /\ PointsCount(cloud) = csv.n
    /\ Cardinality(Succeeded) = 2

(***************************************************************************)
(* C7 as stated: when the embedding service returns a number of vectors    *)
(* different from the number of texts sent for a batch, the batch is       *)
(* treated as failed and reported, and no truncated subset of the batch's  *)
(* points is upserted.                                                     *)
(***************************************************************************)
\* The batches for which the service returned another number of vectors.
SizeMismatched ==
    {b \in BatchOffsets : \E k \in EventsFor("embed", b) :
        log[k].ok /\ log[k].got # log[k].sent}

\* The loop is past the batch at b.
BatchOver(b) == pc = "done" \/ (pc \in {"embed", "upsert"} /\ i > b)

C7_SizeMismatchFailsLoudly ==
    prog = "ingest" =>
        \A b \in SizeMismatched :
            BatchOver(b) =>
                /\ ReportedFailed(b)
                /\ \A id \in b..(b + BatchLen(b) - 1) : id \notin DOMAIN cloud.points

(***************************************************************************)
(* C8: for every sequence and every batch size >= 1, the chunks taken are  *)
(* each non-empty and of length at most the batch size, only the last may  *)
(* be shorter than it, and concatenated in order they are the sequence.    *)
(***************************************************************************)
RECURSIVE Flatten(_)
Flatten(ss) == IF ss = <<>> THEN <<>> ELSE Head(ss) \o Flatten(Tail(ss))

BatchingOver == pos >= Len(seq)

C8_BatchingRoundTrip ==
    prog = "batcher" =>
        /\ \A k \in DOMAIN chunks :
              /\ Len(chunks[k]) >= 1
              /\ Len(chunks[k]) <= size
              /\ (k < Len(chunks) \/ ~BatchingOver) => Len(chunks[k]) = size
        /\ Flatten(chunks) = SubSeq(seq, 1, Min(pos, Len(seq)))
        /\ BatchingOver => Flatten(chunks) = seq

C8_Witness ==
    /\ prog = "batcher" /\ BatchingOver
    /\ Len(chunks) >= 2
    /\ Len(chunks[Len(chunks)]) < size
    /\ Flatten(chunks) = seq

(***************************************************************************)
(* C9: with a 23-row dataset, BATCH_SIZE = 10 and every embedding and      *)
(* upsert call succeeding, the ingestion issues exactly 3 upsert calls     *)
(* carrying 10, 10 and 3 points in that order and the collection ends      *)
(* with exactly 23 points.                                                 *)
(***************************************************************************)
AllCallsSucceeded == \A k \in DOMAIN log : log[k].ok /\ log[k].got = log[k].sent

UpsertCalls == SelectSeq(log, LAMBDA e : e.kind = "upsert")

C9_EndToEnd ==
    (prog = "ingest" /\ pc = "done" /\ Len(processed_data) = 23
        /\ INGEST_BATCH_SIZE = 10 /\ AllCallsSucceeded)
    => /\ Len(UpsertCalls) = 3
       /\ [k \in 1..3 |-> UpsertCalls[k].sent] = <<10, 10, 3>>
       /\ [k \in 1..3 |-> UpsertCalls[k].off] = <<0, 10, 20>>
       /\ PointsCount(cloud) = 23
       /\ DOMAIN cloud.points = 0..22

C9_Witness ==
    /\ prog = "ingest" /\ pc = "done" /\ csv.n = 23
    /\ Len(processed_data) = 23
    /\ AllCallsSucceeded
    /\ PointsCount(cloud) = 23

(***************************************************************************)
(* C10 as stated: when one row of the dataset fails numeric normalization  *)
(* only that row is dropped, every other row is still normalized,          *)
(* embedded and upserted, and the run does not abort.                      *)
(***************************************************************************)
\* process_csv has run.
PastProcessCsv ==
    \/ pc \in {"embed", "upsert", "done"}
    \/ pc = "exit" /\ <<"csv_error", 0>> \in reports

C10_ParseErrorRowScoped ==
    (prog = "ingest" /\ csv.present /\ csv.n > 1 /\ Cardinality(BadRows(csv)) = 1
        /\ PastProcessCsv)
    => /\ pc # "exit"
       /\ processed_data = process_csv_skipping(csv).data

(***************************************************************************)
(* C10, amended: when a row of the dataset fails numeric normalization,    *)
(* process_csv reports the error and the whole run exits: no row is kept,  *)
(* embedded or upserted, and the destination collection, recreated before  *)
(* the dataset was read, is left empty.                                    *)
(***************************************************************************)
C10_ParseErrorAborts ==
    (prog = "ingest" /\ csv.present /\ BadRows(csv) # {})
    => /\ pc \in {"setup_clients", "initialize_collection", "process_csv", "exit"}
       /\ processed_data = <<>>
       /\ log = <<>>
       /\ pbar = 0
       /\ PastProcessCsv =>
             /\ pc = "exit"
             /\ <<"csv_error", 0>> \in reports
             /\ cloud = [exists |-> TRUE, points |-> NoPoints]

C10_Witness ==
    /\ prog = "ingest" /\ pc = "exit" /\ <<"csv_error", 0>> \in reports
    /\ csv.n > INGEST_BATCH_SIZE
    /\ Cardinality(BadRows(csv)) = 1

(***************************************************************************)
(* C11: when a required credential or service URL is absent the run        *)
(* terminates in setup_clients: before the destination collection is       *)
(* deleted or created, before anything is read and before any embedding or *)
(* upsert call is issued; the destination collection is left as it was.    *)
(***************************************************************************)
C11_StoppedAtSetup ==
    (prog \in {"ingest", "migrate"} /\ ~envOk) =>
        /\ pc \in {"setup_clients", "exit"}
        /\ pc = "exit" => reports = {<<"config_error", 0>>}
        /\ log = <<>>
        /\ processed_data = <<>> /\ points = <<>>
        /\ cloud \in CloudCollections

\* C11, whole: a run whose configuration is incomplete stops in setup_clients
\* with nothing read or called, and no step of it changes the destination.
C11_ConfigErrorFatal ==
    /\ []C11_StoppedAtSetup
    /\ [][~envOk => cloud' = cloud]_vars

C11_Witness ==
    /\ prog = "ingest" /\ ~envOk /\ pc = "exit"
    /\ cloud = [exists |-> TRUE, points |-> StalePoints]

\* The number a numeral stands for: its digits over 10^(number of decimals).
NumeralValue(n) ==
    [neg |-> n.neg, mantissa |-> NatOf(n.int \o n.frac), scale |-> Len(n.frac)]

(***************************************************************************)
(* C12: for the text of every numeral with one decimal comma and any       *)
(* thousands dots, convert_numeric returns the number read after removing  *)
(* the dots and putting a point for the comma ("1.234,56" gives 1234.56);  *)
(* the text of a numeral without a comma is read after removing its dots   *)
(* ("56" gives 56.0).                                                      *)
(***************************************************************************)
C12_NumericNormalization ==
    /\ (prog = "converter" /\ pc = "returned") =>
           /\ converted.ok /\ ~converted.nan
           /\ Number(converted.text) = NumeralValue(numeral)
    /\ LET r == convert_numeric([type |-> "str", chars |-> GoodText])
       IN  r.ok /\ Number(r.text) = [neg |-> FALSE, mantissa |-> 123456, scale |-> 2]
    /\ LET r == convert_numeric([type |-> "str", chars |-> <<"5", "6">>])
       IN  r.ok /\ Number(r.text) = [neg |-> FALSE, mantissa |-> 56, scale |-> 0]

C12_Witness ==
    /\ prog = "converter" /\ pc = "returned"
    /\ numeral.dots /\ Len(numeral.int) > 3 /\ Len(numeral.frac) = 2
    /\ converted.ok

\* The migration is reading the source or working through its batches.
Streaming == prog = "migrate" /\ pc \in {"migrate_data", "migrate_batch"}

(***************************************************************************)
(* C13, as stated: a migration run that has reached Streaming ends having  *)
(* performed verification, whatever the number of batches that succeeded   *)
(* (none included) and whatever the size of the source (empty included).   *)
(***************************************************************************)
C13_AlwaysVerifies ==
    (prog = "migrate" /\ pc = "done") => verdict # "none"

\* C13, amended, in a state: verification is entered only with a positive
\* count of migrated points; a run that ended did verify exactly when its
\* count is positive, and otherwise reported the failed run instead.
C13_VerifiesIffPointsMigrated ==
    prog = "migrate" =>
        /\ pc = "verify_migration" => successful_points > 0 /\ verdict = "none"
        /\ pc = "done" =>
              /\ verdict # "none" <=> successful_points > 0
              /\ <<"run_failed", 0>> \in reports <=> successful_points = 0

(***************************************************************************)
(* C13, amended: a migration run in Streaming always has a next step, and  *)
(* the step that leaves Streaming goes on to verification, which the next  *)
(* step performs, exactly when at least one batch was stored; when none    *)
(* was (the first batch exhausted its attempts, the source is empty, or    *)
(* reading it failed) the run ends with the report of a failed run and     *)
(* performs no verification.                                               *)
(***************************************************************************)
C13_StreamingToVerifying ==
    /\ []C13_VerifiesIffPointsMigrated
    /\ [](Streaming \/ (prog = "migrate" /\ pc = "verify_migration") => ENABLED Next)
    /\ [][Streaming => (Streaming' \/ pc' = (IF successful_points' > 0
                                             THEN "verify_migration" ELSE "done"))]_vars
    /\ [][(prog = "migrate" /\ pc = "verify_migration") =>
              (pc' = "done" /\ verdict' # "none")]_vars

C13_Witness ==
    /\ prog = "migrate" /\ pc = "done" /\ verdict # "none"
    /\ 0 < successful_points /\ successful_points < Len(points)

\* An upsert call was issued in the run.
UpsertIssued == \E k \in DOMAIN log : log[k].kind = "upsert"

(***************************************************************************)
(* C14, as stated: every migration run ends in exactly one of Verified,    *)
(* Mismatched or Aborted, and Aborted is never entered after an upsert has *)
(* been issued; no run ends in any other outcome.  (Aborted is read here   *)
(* as any end without one of the two verdicts.)                            *)
(***************************************************************************)
C14_ThreeTerminalStates ==
    (prog = "migrate" /\ Ended) =>
        \/ verdict \in {"Verified", "Mismatched"}
        \/ ~UpsertIssued

\* The outcomes a migration run ends in.
MigrationOutcomes == {"Aborted", "Failed", "Verified", "Mismatched", "VerifyError"}

EndsIn(outcome) ==
    CASE outcome = "Aborted" ->
             /\ pc \in {"exit", "crashed"} /\ verdict = "none"
             /\ <<"config_error", 0>> \in reports \/ <<"create_error", 0>> \in reports
      [] outcome = "Failed" ->
             /\ pc = "done" /\ verdict = "none" /\ successful_points = 0
             /\ <<"run_failed", 0>> \in reports
      [] outcome = "VerifyError" ->
             /\ pc = "done" /\ verdict = "Error" /\ successful_points > 0
             /\ <<"verify_error", 0>> \in reports
      [] OTHER ->
             /\ pc = "done" /\ verdict = outcome /\ successful_points > 0

\* C14, amended, in a state that ended: exactly one outcome of the five, and
\* nothing was read or upserted when the outcome is Aborted.
C14_OneOutcome ==
    (prog = "migrate" /\ Ended) =>
        /\ Cardinality({o \in MigrationOutcomes : EndsIn(o)}) = 1
        /\ EndsIn("Aborted") => (log = <<>> /\ points = <<>>)

(***************************************************************************)
(* C14, amended: every migration run that ends does so in exactly one of   *)
(* Aborted, Failed, Verified, Mismatched or VerifyError, and takes no step *)
(* after it.  Aborted is entered only from setup_clients or from the       *)
(* creation of the destination collection, before the source is read and   *)
(* before any upsert; Failed is the end without verification of a run that *)
(* stored no batch, upserts having been issued or not; VerifyError is the  *)
(* end of a verification that could not read a count.                      *)
(***************************************************************************)
C14_TerminalStates ==
    /\ []C14_OneOutcome
    /\ [][(prog = "migrate" /\ pc' \in {"exit", "crashed"}) =>
              pc \in {"setup_clients", "initialize_cloud_collection"}]_vars
    /\ [][~(prog = "migrate" /\ Ended)]_vars

C14_Witness ==
    /\ prog = "migrate" /\ EndsIn("Failed") /\ UpsertIssued

\* The run is past the initialization of the destination collection.
Initialized ==
    /\ prog \in {"ingest", "migrate"}
    /\ \/ pc \in {"process_csv", "embed", "upsert", "done",
                  "migrate_data", "migrate_batch", "verify_migration"}
       \/ pc = "exit" /\ <<"csv_error", 0>> \in reports

FromEarlierLoad(point) == point.payload = -1

\* C15, in a state: past the initialization the destination exists, holds no
\* point from before the run and nothing at all until an upsert succeeded; a
\* run whose creation failed has ended with nothing read, embedded or upserted.
C15_EmptyAtFirstUpsert ==
    /\ Initialized =>
          /\ cloud.exists
          /\ \A id \in DOMAIN cloud.points : ~FromEarlierLoad(cloud.points[id])
          /\ Succeeded = {} => cloud.points = NoPoints
    /\ <<"create_error", 0>> \in reports =>
          /\ pc \in {"exit", "crashed"}
          /\ log = <<>> /\ processed_data = <<>> /\ points = <<>>
          /\ \A r \in reports : r[1] \notin {"processed", "total_points"}

C16_ReadsWholeSource ==
    /\ (prog = "scroller" /\ pc = "migrate_batch") =>
           /\ points_read = source_count
           /\ <<"total_points", source_count>> \in reports
    /\ (prog = "migrate" /\ \E r \in reports : r[1] = "total_points") =>
           /\ Len(points) = Len(local)
           /\ <<"total_points", Len(local)>> \in reports

\* The payload of the k-th record (from 0) of the run's input sequence.
PayloadAt(k) == IF prog = "ingest" THEN Input[k + 1] ELSE Input[k + 1].payload

\* The ids of the points the successful upsert of the batch at b carried.
IdsStored(b) ==
    LET k == CHOOSE j \in EventsFor("upsert", b) : log[j].ok
    IN  b..(b + log[k].sent - 1)

(***************************************************************************)
(* C17: every point upserted by ingestion or migration has as id its       *)
(* zero-based position in the run's input sequence (for migration the list *)
(* read from the source, whatever the id the point has there) and carries  *)
(* the payload of the record at that position; the batches of one run      *)
(* carry disjoint ids, and a run all of whose calls succeed leaves exactly *)
(* the ids 0..N-1 in the destination.                                      *)
(***************************************************************************)
C17_OffsetBasedIds ==
    Initialized =>
        /\ \A id \in DOMAIN cloud.points :
              /\ id \in 0..(Len(Input) - 1)
              /\ cloud.points[id].payload = PayloadAt(id)
        /\ DOMAIN cloud.points = UNION {IdsStored(b) : b \in Succeeded}
        /\ \A b \in Succeeded : \A c \in Succeeded :
              b # c => IdsStored(b) \cap IdsStored(c) = {}
        /\ \A b \in Succeeded :
              Cardinality({k \in EventsFor("upsert", b) : log[k].ok}) = 1
        /\ (pc = "done" /\ Succeeded = BatchOffsets /\ AllCallsSucceeded) =>
              DOMAIN cloud.points = 0..(Len(Input) - 1)

\* A migration of more than one batch from a source whose ids are not the
\* positions, every call of which succeeded.
C17_Witness ==
    /\ prog = "migrate" /\ pc = "done" /\ AllCallsSucceeded
    /\ Len(points) > BATCH_SIZE /\ Succeeded = BatchOffsets
    /\ points[1].id # 0
    /\ DOMAIN cloud.points = 0..(Len(points) - 1)

\* The embedding and upsert calls of the log.
ServiceCalls == {k \in DOMAIN log : log[k].kind \in {"embed", "upsert"}}

\* Entry j of the log ends the batch it belongs to: its upsert returned, or the
\* call failed and no attempt is left (ingestion has one attempt, migration
\* MAX_RETRIES).
EndsBatch(j) ==
    LET e == log[j]
    IN  \/ e.kind = "upsert" /\ e.ok
        \/ prog = "ingest" /\ e.kind \in {"embed", "upsert"} /\ ~e.ok
        \/ /\ prog = "migrate" /\ e.kind = "upsert" /\ ~e.ok
           /\ Cardinality({m \in EventsFor("upsert", e.off) : m <= j}) = MAX_RETRIES

(***************************************************************************)
(* C18: batches are processed one after the other: no embedding or upsert  *)
(* call for a later batch is issued before the batch before it has         *)
(* finished (its upsert succeeded or all its attempts failed), and no call *)
(* for an earlier batch follows a call for a later one.                    *)
(***************************************************************************)
C18_SequentialByBatch ==
    \A j \in ServiceCalls : \A k \in ServiceCalls :
        j < k =>
            /\ log[j].off <= log[k].off
            /\ log[j].off < log[k].off =>
                  \E m \in j..(k - 1) : log[m].off = log[j].off /\ EndsBatch(m)

\* A migration whose first batch succeeded at its last attempt and whose
\* second batch was then called.
C18_Witness ==
    /\ prog = "migrate"
    /\ Cardinality({k \in EventsFor("upsert", 0) : ~log[k].ok}) = MAX_RETRIES - 1
    /\ EventsFor("upsert", BATCH_SIZE) # {}

\* migrate_data is at an iteration of its loop or has returned.
InOrAfterLoop == prog = "migrate" /\ pc \in {"migrate_batch", "verify_migration", "done"}

(***************************************************************************)
(* C19: at every iteration of migrate_data's loop and at its return,       *)
(* successful_points equals offset, is at most total_points and equals the *)
(* number of points in the batches whose upsert succeeded; the destination *)
(* having been emptied at the start and the run being its only writer, it  *)
(* holds exactly the ids 0..successful_points-1.                           *)
(***************************************************************************)
C19_SuccessCounter ==
    InOrAfterLoop =>
        /\ successful_points = offset
        /\ successful_points <= Len(points)
        /\ successful_points = SumLen(Succeeded)
        /\ pbar = successful_points
        /\ DOMAIN cloud.points = 0..(successful_points - 1)

\* A run that stored two batches and lost the third, shorter one.
C19_Witness ==
    /\ prog = "migrate" /\ pc = "done"
    /\ successful_points = 2 * BATCH_SIZE /\ Len(points) > successful_points
    /\ Exhausted # {}

\* ceil(n / d)
CeilDiv(n, d) == (n + d - 1) \div d

\* A bound on the steps a migration run has left: the attempts the batches
\* from offset on may still take, and the steps of main around the loop.
StepsLeft ==
    CASE pc = "setup_clients"               -> 5 + MAX_RETRIES * CeilDiv(Len(local), BATCH_SIZE)
      [] pc = "initialize_cloud_collection" -> 4 + MAX_RETRIES * CeilDiv(Len(local), BATCH_SIZE)
      [] pc = "migrate_data"                -> 3 + MAX_RETRIES * CeilDiv(Len(local), BATCH_SIZE)
      [] pc = "migrate_batch" ->
             2 + MAX_RETRIES * CeilDiv(Len(points) - offset, BATCH_SIZE) - attempt
      [] pc = "verify_migration"            -> 1
      [] OTHER                              -> 0

\* C20, in a state: the upsert calls issued so far are at most MAX_RETRIES per
\* batch of the points read, and a run that has not ended has a next step.
C20_AttemptsBounded ==
    prog = "migrate" =>
        /\ Cardinality({k \in DOMAIN log : log[k].kind = "upsert"})
              <= MAX_RETRIES * CeilDiv(Len(points), BATCH_SIZE)
        /\ \A b \in BatchOffsets : Cardinality(EventsFor("upsert", b)) <= MAX_RETRIES
        /\ attempt < MAX_RETRIES
        /\ StepsLeft >= 0
        /\ Ended \/ ENABLED Next

(***************************************************************************)
(* C20: for every source size and every pattern of upsert successes and    *)
(* failures the migration run terminates: every step lowers a bound on the *)
(* steps left, and the run has a next step until it has ended.  offset     *)
(* strictly increases with each batch stored and never decreases, and the  *)
(* upsert attempts of a run are at most MAX_RETRIES x ceil(N / BATCH_SIZE).*)
(***************************************************************************)
C20_Termination ==
    /\ []C20_AttemptsBounded
    /\ [][prog = "migrate" => StepsLeft' < StepsLeft]_vars
    /\ [][prog = "migrate" => offset' >= offset]_vars
    /\ [][(prog = "migrate" /\ cloud'.points # cloud.points /\ pc = "migrate_batch")
              => offset' > offset]_vars

\* A run of three batches, each stored at its last attempt.
C20_Witness ==
    /\ prog = "migrate" /\ pc = "done" /\ verdict = "Verified"
    /\ Len(points) > 2 * BATCH_SIZE
    /\ Cardinality({k \in DOMAIN log : log[k].kind = "upsert"})
          = MAX_RETRIES * CeilDiv(Len(points), BATCH_SIZE)

\* The page showed a message of the kind.
Shown(kind) == \E r \in reports : r[1] = kind

CallsOf(kind) == {k \in DOMAIN log : log[k].kind = kind}

\* A call of the embedding, search or synthesis service failed: it raised, or
\* the embedding response held no vector.
ServiceFailed ==
    \E k \in DOMAIN log : ~log[k].ok \/ (log[k].kind = "embed_query" /\ log[k].got = 0)

\* The search returned, with no hit.
EmptyRetrieval == \E k \in CallsOf("search") : log[k].ok /\ log[k].got = 0

(***************************************************************************)
(* C21: for a submitted question the answer-synthesis call is made only    *)
(* when the search returned at least one hit, and at most once; an empty   *)
(* search result yields the 'no results' warning, and a failure of the     *)
(* embedding, search or synthesis service yields an error message and no   *)
(* answer; the warning and an error are never both shown for the same      *)
(* question, and a question whose processing ended got exactly one of      *)
(* answer, warning and error.  Without a question no service is called.    *)
(***************************************************************************)
C21_QueryOutcomes ==
    prog = "query" =>
        /\ CallsOf("chat") # {} =>
              /\ results # <<>>
              /\ \E k \in CallsOf("search") : log[k].ok /\ log[k].got = Len(results)
              /\ Cardinality(CallsOf("chat")) = 1
        /\ Shown("st_warning") <=> (EmptyRetrieval /\ pc # "if_results")
        /\ Shown("st_warning") => (CallsOf("chat") = {} /\ ~ServiceFailed)
        /\ ServiceFailed => (Shown("st_error") /\ pc = "stopped")
        /\ ~(Shown("st_warning") /\ Shown("st_error"))
        /\ Shown("st_success") <=> \E k \in CallsOf("chat") : log[k].ok
        /\ (log # <<>> /\ pc \in {"done", "stopped"}) =>
              Cardinality({kind \in {"st_success", "st_warning", "st_error"} :
                              Shown(kind)}) = 1
        /\ query = <<>> => log = <<>>

\* A question whose search returned no hit: the warning, and no synthesis call.
C21_Witness ==
    /\ prog = "query" /\ pc = "done" /\ query # <<>>
    /\ EmptyRetrieval /\ Shown("st_warning") /\ CallsOf("chat") = {}

====
